---- MODULE Spec2Model ----
(***************************************************************************)
(* A model of the three command-line tools of windows-unix-tools:          *)
(*   tail   (src/tail/src/main.rs)                                          *)
(*   locate (src/locate/src/main.rs)                                        *)
(*   touch  (src/touch/src/main.rs)                                         *)
(* A string is a sequence of one-character strings, so that prefix tests,  *)
(* parsing, case folding and substring search are computed, not assumed.   *)
(* Each tool has its own specification (SpecTail, SpecLocate, SpecTouch)   *)
(* over the shared variables.                                              *)
(***************************************************************************)
EXTENDS Integers, Sequences, FiniteSets, TLC

VARIABLES
    args,        \* the argument vector, args[1] is Rust's args[0]
    pc,          \* position of main: "check_args", the tool's pass, "done"
    exit_code,   \* Running until the process ends; then 0, 1 or 101 (panic)
    err,         \* what was written to standard error, as tags
    options,     \* the tool's Options record
    out,         \* what was written to standard output
    i,           \* the loop index of the tool's pass over args (0-based)
    file_paths,  \* tail: display_files' file_paths vector
    fs,          \* the file system the tool sees
    files,       \* locate: find_file's files vector
    now,         \* touch: the system clock when the last target was processed
    kstamps,     \* touch: how many timestamps the kernel has written by itself
    log          \* touch: the file-system calls made, in order

vars == <<args, pc, exit_code, err, options, out, i, file_paths, fs, files, now, kstamps, log>>

Running == 0 - 1
None == [some |-> FALSE]
Some(v) == [some |-> TRUE, val |-> v]

-----------------------------------------------------------------------------
(* Strings *)

Min(a, b) == IF a < b THEN a ELSE b

DigitChars == <<"0", "1", "2", "3", "4", "5", "6", "7", "8", "9">>
UpperChars == <<"A", "B", "C", "D", "E", "F", "G", "H", "I", "J", "K", "L", "M",
                "N", "O", "P", "Q", "R", "S", "T", "U", "V", "W", "X", "Y", "Z">>
LowerChars == <<"a", "b", "c", "d", "e", "f", "g", "h", "i", "j", "k", "l", "m",
                "n", "o", "p", "q", "r", "s", "t", "u", "v", "w", "x", "y", "z">>

Range(s) == {s[n] : n \in 1..Len(s)}

\* char::is_ascii_digit
is_ascii_digit(c) == c \in Range(DigitChars)

DigitVal(c) == (CHOOSE n \in 1..10 : DigitChars[n] = c) - 1

\* char lowercasing, on the ASCII letters
LowerChar(c) ==
    IF c \in Range(UpperChars)
    THEN LowerChars[CHOOSE n \in 1..26 : UpperChars[n] = c]
    ELSE c

\* str::to_lowercase
to_lowercase(s) == [n \in 1..Len(s) |-> LowerChar(s[n])]

\* str::starts_with(char)
starts_with(s, c) == Len(s) > 0 /\ s[1] = c

\* str::contains(&str): the needle occurs at some offset of the haystack
contains(hay, needle) ==
    \E k \in 0..(Len(hay) - Len(needle)) :
        \A n \in 1..Len(needle) : hay[k + n] = needle[n]

\* the decimal value of a string of digits
RECURSIVE DecimalValue(_)
DecimalValue(s) ==
    IF s = <<>> THEN 0
    ELSE 10 * DecimalValue(SubSeq(s, 1, Len(s) - 1)) + DigitVal(s[Len(s)])

\* str::parse::<u32>: an optional '+', then one or more digits
\* (the model's tokens are short, so the value always fits)
ParseU32(s) ==
    LET body == IF starts_with(s, "+") THEN Tail(s) ELSE s
    IN  IF body # <<>> /\ \A n \in 1..Len(body) : is_ascii_digit(body[n])
        THEN Some(DecimalValue(body))
        ELSE None

-----------------------------------------------------------------------------
(* Unsigned integers wider than the checker's: hi * 2^30 + lo, lo < 2^30 *)

B30 == 1024 * 1024 * 1024

Wide(n) == [hi |-> n \div B30, lo |-> n % B30]

\* v * 1024^k for a v below 2^31 (no u64 overflow is possible for such v)
WideMul1024(v, k) ==
    CASE k = 0 -> Wide(v)
      [] k = 1 -> [hi |-> v \div (1024 * 1024), lo |-> (v % (1024 * 1024)) * 1024]
      [] k = 2 -> [hi |-> v \div 1024, lo |-> (v % 1024) * 1024 * 1024]
      [] k = 3 -> [hi |-> v, lo |-> 0]

\* `as u32`: keep the low 32 bits
AsU32(w) == [hi |-> w.hi % 4, lo |-> w.lo]

\* w < n for a small n
WideLess(w, n) == w.hi = 0 /\ w.lo < n

\* w = n for a small n
WideEq(w, n) == w.hi = 0 /\ w.lo = n

\* min(w, n) for a small n
WideMin(w, n) == IF WideLess(w, n) THEN w.lo ELSE n

U32_MAX == [hi |-> 3, lo |-> B30 - 1]

-----------------------------------------------------------------------------
(* tail *)

TailStem == <<"t", "a", "i", "l">>

T_h == <<"/", "h">>
T_help == <<"-", "-", "h", "e", "l", "p">>
T_l == <<"/", "l">>
T_n == <<"/", "n">>
T_b == <<"/", "b">>
T_num_lines == <<"-", "-", "n", "u", "m", "-", "l", "i", "n", "e", "s">>
T_num_bytes == <<"-", "-", "n", "u", "m", "-", "b", "y", "t", "e", "s">>

\* Bounds of the tail model
MaxTailArgs == 3
MaxFileLen == 2

RECURSIVE SeqsUpTo(_, _)
SeqsUpTo(S, n) ==
    IF n = 0 THEN {<<>>}
    ELSE LET shorter == SeqsUpTo(S, n - 1)
         IN  shorter \cup {Append(s, x) : s \in shorter, x \in S}

\* The operands and values tried on the command line
TailTokens ==
    {T_h, T_l, T_n, T_b, T_num_lines,
     <<"0">>, <<"1">>, <<"4", "g">>, <<"f">>, <<"g">>}

\* The readable files; any other path fails to open
TailFiles == {<<"f">>, <<"g">>}
FileChars == {"a", "\n"}

\* What args[0] may be: the bare stem, the stem with its extension, a
\* relative and an absolute path of the executable
TailArgv0 ==
    {TailStem,
     TailStem \o <<".", "e", "x", "e">>,
     <<".", "/">> \o TailStem,
     <<"/", "u", "s", "r", "/", "b", "i", "n", "/">> \o TailStem}

\* the paths among them that name the executable from the working directory
TailExePaths == {a \in TailArgv0 : "/" \in Range(a)}

\* the executable is a readable file that is not valid UTF-8; which bytes
\* it ends with depends on the build: an invalid byte, or a NUL
InvalidByte == "0xff"
NulByte == "0x00"
TailExeImages == {<<"E", InvalidByte>>, <<InvalidByte, NulByte>>}

\* whether read_to_string accepts the bytes
is_utf8(bytes) == InvalidByte \notin Range(bytes)

\* String::from_utf8_lossy: an invalid byte becomes U+FFFD
from_utf8_lossy(bytes) ==
    [n \in 1..Len(bytes) |-> IF bytes[n] = InvalidByte THEN "U+FFFD" ELSE bytes[n]]

\* Options::new
TailOptionsNew == [num_lines |-> 10, num_bytes |-> None]

\* parse_size: <digits><unit>, unit one of k, m, g (any case) or empty
RECURSIVE take_while_digit(_)
take_while_digit(s) ==
    IF s # <<>> /\ is_ascii_digit(s[1])
    THEN <<s[1]>> \o take_while_digit(Tail(s))
    ELSE <<>>

parse_size(size_str) ==
    LET value == take_while_digit(size_str)
        unit  == to_lowercase(SubSeq(size_str, Len(value) + 1, Len(size_str)))
    IN  IF value = <<>> THEN None
        ELSE CASE unit = <<"k">> -> Some(WideMul1024(DecimalValue(value), 1))
               [] unit = <<"m">> -> Some(WideMul1024(DecimalValue(value), 2))
               [] unit = <<"g">> -> Some(WideMul1024(DecimalValue(value), 3))
               [] unit = <<>>    -> Some(WideMul1024(DecimalValue(value), 0))
               [] OTHER          -> None

\* `size as u32` at the two places a parsed size is stored
SizeAsU32(size) == AsU32(size)

\* str::split('\n'): the pieces between newlines, a last empty one included
RECURSIVE split_newline(_, _)
split_newline(s, cur) ==
    IF s = <<>> THEN <<cur>>
    ELSE IF s[1] = "\n" THEN <<cur>> \o split_newline(Tail(s), <<>>)
    ELSE split_newline(Tail(s), Append(cur, s[1]))

\* println! of each element of a vector of lines
RECURSIVE PrintLines(_)
PrintLines(lines) ==
    IF lines = <<>> THEN <<>>
    ELSE lines[1] \o <<"\n">> \o PrintLines(Tail(lines))

\* the index display_files starts printing at
LineStartIndex(len, num_lines) ==
    IF len > num_lines THEN len - num_lines ELSE 0

\* display_files, line mode: what is printed between the header and the blank line
LineModeBody(content, num_lines) ==
    LET contents    == split_newline(content, <<>>)
        start_index == LineStartIndex(Len(contents), num_lines)
    IN  PrintLines(SubSeq(contents, start_index + 1, Len(contents)))

\* display_files, byte mode: seek to start_pos, one read into num_bytes bytes
ByteModeBody(content, num_bytes) ==
    LET file_len   == Len(content)
        start_pos  == IF WideLess(num_bytes, file_len)
                      THEN file_len - num_bytes.lo ELSE 0
        bytes_read == WideMin(num_bytes, file_len - start_pos)
    IN  SubSeq(content, start_pos + 1, start_pos + bytes_read)

\* one file's header, rule and content
Block(file_path, content, opts) ==
    [file   |-> file_path,
     dashes |-> Len(file_path) + 17,
     body   |-> IF opts.num_bytes.some
                THEN from_utf8_lossy(ByteModeBody(content, opts.num_bytes.val))
                ELSE LineModeBody(content, opts.num_lines)]

\* the header and rule of a file whose content read_to_string then rejects
HeaderOnly(file_path) ==
    [file |-> file_path, dashes |-> Len(file_path) + 17, body |-> <<>>]

\* the `for file_path in &file_paths` loop: prints until a file fails to
\* open ("open") or, in line mode, is not valid UTF-8 ("utf8": the unwrap
\* of read_to_string panics after the header is printed)
RECURSIVE DisplayAll(_, _, _)
DisplayAll(paths, filesys, opts) ==
    IF paths = <<>> THEN [blocks |-> <<>>, error |-> ""]
    ELSE IF paths[1] \notin DOMAIN filesys THEN [blocks |-> <<>>, error |-> "open"]
    ELSE IF ~opts.num_bytes.some /\ ~is_utf8(filesys[paths[1]])
    THEN [blocks |-> <<HeaderOnly(paths[1])>>, error |-> "utf8"]
    ELSE LET rest == DisplayAll(Tail(paths), filesys, opts)
         IN  [blocks |-> <<Block(paths[1], filesys[paths[1]], opts)>> \o rest.blocks,
              error  |-> rest.error]

\* the files display_files prints after pushing a new operand
FilesToDisplay(paths) == paths

Exit(code, tag) ==
    /\ pc' = "done"
    /\ exit_code' = code
    /\ err' = Append(err, tag)

\* tail's check_args
TailCheckArgs ==
    /\ pc = "tail_check_args"
    /\ UNCHANGED <<args, i, file_paths, fs, files, now, kstamps, log>>
    /\ IF Len(args) = 1
       THEN Exit(1, "usage") /\ UNCHANGED <<options, out>>
       ELSE LET arg == args[2] IN
            IF arg = T_h \/ arg = T_help
            THEN /\ pc' = "done" /\ exit_code' = 0
                 /\ out' = <<[kind |-> "help"]>>
                 /\ UNCHANGED <<err, options>>
            ELSE IF arg = T_l \/ arg = T_num_lines
            THEN IF Len(args) < 3
                 THEN Exit(101, "panic: index out of bounds") /\ UNCHANGED <<options, out>>
                 ELSE LET num_lines == ParseU32(args[3]) IN
                      IF num_lines.some
                      THEN /\ options' = [options EXCEPT !.num_lines = num_lines.val]
                           /\ pc' = "tail_display_files"
                           /\ UNCHANGED <<exit_code, err, out>>
                      ELSE Exit(1, "expected a positive whole number") /\ UNCHANGED <<options, out>>
            ELSE IF arg = T_b \/ arg = T_num_bytes
            THEN IF Len(args) > 2
                 THEN LET size == parse_size(args[3]) IN
                      IF size.some
                      THEN /\ options' = [options EXCEPT
                                            !.num_bytes = Some(SizeAsU32(size.val))]
                           /\ pc' = "tail_display_files"
                           /\ UNCHANGED <<exit_code, err, out>>
                      ELSE Exit(1, "invalid size format") /\ UNCHANGED <<options, out>>
                 ELSE Exit(1, "missing value") /\ UNCHANGED <<options, out>>
            ELSE /\ pc' = "tail_display_files"
                 /\ UNCHANGED <<exit_code, err, options, out>>

\* the flags display_files' match knows as a line count
IsNumLinesFlag(arg) == arg = T_num_lines \/ arg = T_n

\* the flags display_files' match knows as a byte count
IsNumBytesFlag(arg) == arg = T_num_bytes \/ arg = T_b

\* one iteration of display_files' while loop
TailDisplayStep ==
    /\ pc = "tail_display_files"
    /\ i < Len(args)
    /\ UNCHANGED <<args, fs, files, now, kstamps, log>>
    /\ LET arg == args[i + 1] IN
       IF starts_with(arg, "-") \/ starts_with(arg, "/")
       THEN /\ UNCHANGED <<out, file_paths>>
            /\ IF IsNumLinesFlag(arg)
               THEN IF i + 1 < Len(args)
                    THEN LET num_lines == ParseU32(args[i + 2]) IN
                         IF num_lines.some
                         THEN /\ options' = [options EXCEPT !.num_lines = num_lines.val]
                              /\ i' = i + 2
                              /\ UNCHANGED <<pc, exit_code, err>>
                         ELSE Exit(1, "invalid number of lines") /\ UNCHANGED <<options, i>>
                    ELSE Exit(1, "missing value") /\ UNCHANGED <<options, i>>
               ELSE IF IsNumBytesFlag(arg)
               THEN IF i + 1 < Len(args)
                    THEN LET size == parse_size(args[i + 2]) IN
                         IF size.some
                         THEN /\ options' = [options EXCEPT
                                               !.num_bytes = Some(SizeAsU32(size.val))]
                              /\ i' = i + 2
                              /\ UNCHANGED <<pc, exit_code, err>>
                         ELSE Exit(1, "invalid size format") /\ UNCHANGED <<options, i>>
                    ELSE Exit(1, "missing value") /\ UNCHANGED <<options, i>>
               ELSE Exit(1, "unknown argument") /\ UNCHANGED <<options, i>>
       ELSE IF arg = TailStem
       THEN /\ i' = i + 1
            /\ UNCHANGED <<pc, exit_code, err, options, out, file_paths>>
       ELSE LET pushed == Append(file_paths, arg)
                shown  == DisplayAll(FilesToDisplay(pushed), fs, options)
            IN  /\ file_paths' = pushed
                /\ i' = i + 1
                /\ out' = out \o shown.blocks
                /\ UNCHANGED options
                /\ IF shown.error = ""
                   THEN UNCHANGED <<pc, exit_code, err>>
                   ELSE IF shown.error = "open"
                   THEN Exit(1, "error reading file")
                   ELSE Exit(101, "panic: stream did not contain valid UTF-8")

\* display_files returns and main returns Ok(())
TailReturn ==
    /\ pc = "tail_display_files"
    /\ i >= Len(args)
    /\ pc' = "done"
    /\ exit_code' = 0
    /\ UNCHANGED <<args, err, options, out, i, file_paths, fs, files, now, kstamps, log>>

InitTail ==
    /\ args \in {<<argv0>> \o rest :
                    argv0 \in TailArgv0, rest \in SeqsUpTo(TailTokens, MaxTailArgs)}
    /\ fs \in {[p \in TailFiles \cup TailExePaths |->
                    IF p \in TailFiles THEN readable[p] ELSE image] :
                readable \in [TailFiles -> SeqsUpTo(FileChars, MaxFileLen)],
                image \in TailExeImages}
    /\ pc = "tail_check_args"
    /\ exit_code = Running
    /\ err = <<>>
    /\ options = TailOptionsNew
    /\ out = <<>>
    /\ i = 0
    /\ file_paths = <<>>
    /\ files = <<>>
    /\ now = 0
    /\ kstamps = 0
    /\ log = <<>>

NextTail == TailCheckArgs \/ TailDisplayStep \/ TailReturn

SpecTail == InitTail /\ [][NextTail]_vars

-----------------------------------------------------------------------------
(* locate *)

LocateStem == <<"l", "o", "c", "a", "t", "e">>

L_h == <<"/", "h">>
L_help == <<"-", "-", "h", "e", "l", "p">>
L_b == <<"/", "b">>
L_basename == <<"-", "-", "b", "a", "s", "e", "n", "a", "m", "e">>
L_s == <<"/", "s">>
L_case_sensitive ==
    <<"-", "-", "c", "a", "s", "e", "-", "s", "e", "n", "s", "i", "t", "i", "v", "e">>
L_c == <<"/", "c">>
L_count == <<"-", "-", "c", "o", "u", "n", "t">>
L_l == <<"/", "l">>
L_limit == <<"-", "-", "l", "i", "m", "i", "t">>
L_r == <<"/", "r">>
L_regex == <<"-", "-", "r", "e", "g", "e", "x">>

\* Bound of the locate model
MaxLocateArgs == 3

\* The flags, values, search terms and patterns tried on the command line
LocateTokens ==
    {L_h, L_b, L_s, L_c, L_l, L_r,
     <<"0">>, <<"1">>, <<"a">>, <<"A">>, <<"(">>}

\* What a tree under "." may hold: the directories, and the regular files
\* that are there or not, one of them with a name that is not valid Unicode
WalkDirs == {<<".">>, <<".", "/", "A", "b">>}
WalkUniverse ==
    {<<".", "/", "A", "b", "/", "c">>,
     <<".", "/", "a">>,
     <<".", "/", "a", InvalidByte>>}

\* the directory that holds an entry
RECURSIVE WalkParent(_)
WalkParent(path) ==
    IF path = <<>> THEN <<>>
    ELSE IF path[Len(path)] = "/" THEN SubSeq(path, 1, Len(path) - 1)
    ELSE WalkParent(SubSeq(path, 1, Len(path) - 1))

\* the entries a directory holds in a tree with the regular files `present`
Children(dir, present) == {p \in WalkDirs \cup present : WalkParent(p) = dir}

\* The orders in which WalkDir can yield a tree. No sort is asked for, so a
\* directory's entries come in the order the file system lists them, which
\* may be any; a directory is yielded before what it holds, and what it
\* holds before its next sibling.
RECURSIVE WalksFrom(_, _)
RECURSIVE WalksThrough(_, _)
WalksFrom(node, present) ==
    IF node \in WalkDirs
    THEN {<<node>> \o below : below \in WalksThrough(Children(node, present), present)}
    ELSE {<<node>>}
WalksThrough(entries, present) ==
    IF entries = {} THEN {<<>>}
    ELSE UNION {{first \o rest : first \in WalksFrom(e, present),
                                 rest \in WalksThrough(entries \ {e}, present)} :
                e \in entries}

\* the walks over a tree that holds the regular files `present`
WalkOf(present) ==
    {[n \in 1..Len(paths) |-> [path |-> paths[n], is_file |-> paths[n] \notin WalkDirs]] :
        paths \in WalksFrom(<<".">>, present)}

\* Options::new
LocateOptionsNew ==
    [base_name |-> FALSE, case_sens |-> FALSE, count |-> FALSE,
     limit |-> U32_MAX, regex |-> None]

\* Regex::new, for patterns of literal characters and `.`: a parenthesis in
\* such a pattern is never closed, and the pattern is rejected
RegexNew(pattern) ==
    IF "(" \in Range(pattern) \/ ")" \in Range(pattern)
    THEN None
    ELSE Some(pattern)

\* Regex::is_match: an unanchored search; `.` matches any character but a
\* newline, every other character matches itself
is_match(re, text) ==
    \E k \in 0..(Len(text) - Len(re)) :
        \A n \in 1..Len(re) :
            \/ re[n] = "." /\ text[k + n] # "\n"
            \/ re[n] # "." /\ re[n] = text[k + n]

\* Path::file_name: the last component, none for `.` and `..`
RECURSIVE LastComponent(_)
LastComponent(path) ==
    IF path = <<>> \/ path[Len(path)] = "/" THEN <<>>
    ELSE Append(LastComponent(SubSeq(path, 1, Len(path) - 1)), path[Len(path)])

file_name(path) ==
    LET last == LastComponent(path)
    IN  IF last \in {<<>>, <<".">>, <<".", ".">>} THEN None ELSE Some(last)

\* OsStr::to_str: the name as a string, none when it is not valid Unicode
to_str(name) == IF is_utf8(name) THEN Some(name) ELSE None

\* path.file_name().and_then(|name| name.to_str())
file_name_str(path) ==
    IF file_name(path).some THEN to_str(file_name(path).val) ELSE None

\* path.display().to_string(): what is not valid Unicode is replaced
display(path) == from_utf8_lossy(path)

\* matches_search with the default mode comparing the term as typed
matches_search_TermAsTyped(path, search_term, opts) ==
    IF file_name_str(path).some
    THEN IF opts.base_name
         THEN contains(to_lowercase(file_name_str(path).val), to_lowercase(search_term))
         ELSE IF opts.case_sens
         THEN contains(display(path), search_term)
         ELSE IF opts.regex.some
         THEN is_match(opts.regex.val, to_lowercase(display(path)))
         ELSE contains(to_lowercase(display(path)), search_term)
    ELSE FALSE

\* matches_search
matches_search(path, search_term, opts) ==
    IF file_name_str(path).some
    THEN IF opts.base_name
         THEN contains(to_lowercase(file_name_str(path).val), to_lowercase(search_term))
         ELSE IF opts.case_sens
         THEN contains(display(path), search_term)
         ELSE IF opts.regex.some
         THEN is_match(opts.regex.val, to_lowercase(display(path)))
         ELSE contains(to_lowercase(display(path)), to_lowercase(search_term))
    ELSE FALSE

\* str::replace: every non-overlapping occurrence, left to right
RECURSIVE str_replace(_, _, _)
str_replace(s, from, to) ==
    IF from = <<>>
    THEN to \o (IF s = <<>> THEN <<>>
                ELSE <<s[1]>> \o str_replace(Tail(s), from, to))
    ELSE IF s = <<>> THEN <<>>
    ELSE IF Len(s) >= Len(from) /\ SubSeq(s, 1, Len(from)) = from
    THEN to \o str_replace(SubSeq(s, Len(from) + 1, Len(s)), from, to)
    ELSE <<s[1]>> \o str_replace(Tail(s), from, to)

\* the matched part wrapped in the green ANSI escape codes
Highlighted(file, search_term) ==
    str_replace(file, search_term, <<"ESC[32m">> \o search_term \o <<"ESC[0m">>)

\* find_file's walk: the regular files that match, in traversal order
RECURSIVE WalkMatches(_, _, _)
WalkMatches(walk, search_term, opts) ==
    IF walk = <<>> THEN <<>>
    ELSE (IF walk[1].is_file /\ matches_search(walk[1].path, search_term, opts)
          THEN <<display(walk[1].path)>> ELSE <<>>)
         \o WalkMatches(Tail(walk), search_term, opts)

\* whether find_file's listing loop breaks before printing the file at idx
LimitReached(idx, limit) == WideEq(limit, idx)

\* find_file's listing loop from index idx on
RECURSIVE Listing(_, _, _, _)
Listing(found, idx, search_term, opts) ==
    IF idx >= Len(found) \/ LimitReached(idx, opts.limit) THEN <<>>
    ELSE <<[kind |-> "path", text |-> Highlighted(found[idx + 1], search_term)]>>
         \o Listing(found, idx + 1, search_term, opts)

\* a count clipped by the limit, as the listing is
ReportedCount_Clipped(found, opts) == WideMin(opts.limit, Len(found))

\* the number find_file's last line reports
ReportedCount(found, opts) == Len(found)

\* locate's check_args
LocateCheckArgs ==
    /\ pc = "locate_check_args"
    /\ UNCHANGED <<args, i, file_paths, fs, files, now, kstamps, log>>
    /\ IF Len(args) = 1 \/ (args[2] \in {L_l, L_limit} /\ Len(args) > 4)
       THEN Exit(1, "usage") /\ UNCHANGED <<options, out>>
       ELSE LET arg == args[2] IN
            IF arg = L_h \/ arg = L_help
            THEN /\ pc' = "done" /\ exit_code' = 0
                 /\ out' = <<[kind |-> "help"]>>
                 /\ UNCHANGED <<err, options>>
            ELSE IF arg = L_b \/ arg = L_basename
            THEN /\ options' = [options EXCEPT !.base_name = TRUE]
                 /\ pc' = "locate_find_file"
                 /\ UNCHANGED <<exit_code, err, out>>
            ELSE IF arg = L_s \/ arg = L_case_sensitive
            THEN /\ options' = [options EXCEPT !.case_sens = TRUE]
                 /\ pc' = "locate_find_file"
                 /\ UNCHANGED <<exit_code, err, out>>
            ELSE IF arg = L_c \/ arg = L_count
            THEN /\ options' = [options EXCEPT !.count = TRUE]
                 /\ pc' = "locate_find_file"
                 /\ UNCHANGED <<exit_code, err, out>>
            ELSE IF arg = L_l \/ arg = L_limit
            THEN IF Len(args) < 3
                 THEN Exit(101, "panic: index out of bounds") /\ UNCHANGED <<options, out>>
                 ELSE LET limit == ParseU32(args[3]) IN
                      IF limit.some
                      THEN /\ options' = [options EXCEPT !.limit = Wide(limit.val)]
                           /\ pc' = "locate_find_file"
                           /\ UNCHANGED <<exit_code, err, out>>
                      ELSE Exit(1, "expected a positive whole number")
                           /\ UNCHANGED <<options, out>>
            ELSE IF arg = L_r \/ arg = L_regex
            THEN IF Len(args) < 3
                 THEN Exit(101, "panic: index out of bounds") /\ UNCHANGED <<options, out>>
                 ELSE LET regex == RegexNew(args[3]) IN
                      IF regex.some
                      THEN /\ options' = [options EXCEPT !.regex = regex]
                           /\ pc' = "locate_find_file"
                           /\ UNCHANGED <<exit_code, err, out>>
                      ELSE Exit(1, "expected a valid regular expression")
                           /\ UNCHANGED <<options, out>>
            ELSE /\ pc' = "locate_find_file"
                 /\ UNCHANGED <<exit_code, err, options, out>>

\* main's search term and find_file, then main returns Ok(())
LocateFindFile ==
    /\ pc = "locate_find_file"
    /\ LET search_term == args[Len(args)]
           found       == WalkMatches(fs, search_term, options)
       IN  /\ files' = found
           /\ out' = (IF ~options.count
                      THEN Listing(found, 0, search_term, options)
                      ELSE <<>>)
                     \o <<[kind |-> "count", n |-> ReportedCount(found, options)]>>
    /\ pc' = "done"
    /\ exit_code' = 0
    /\ UNCHANGED <<args, err, options, i, file_paths, fs, now, kstamps, log>>

InitLocate ==
    /\ args \in {<<LocateStem>> \o rest : rest \in SeqsUpTo(LocateTokens, MaxLocateArgs)}
    /\ fs \in UNION {WalkOf(present) : present \in SUBSET WalkUniverse}
    /\ pc = "locate_check_args"
    /\ exit_code = Running
    /\ err = <<>>
    /\ options = LocateOptionsNew
    /\ out = <<>>
    /\ i = 0
    /\ file_paths = <<>>
    /\ files = <<>>
    /\ now = 0
    /\ kstamps = 0
    /\ log = <<>>

NextLocate == LocateCheckArgs \/ LocateFindFile

SpecLocate == InitLocate /\ [][NextLocate]_vars

-----------------------------------------------------------------------------
(* touch *)

\* the executable, as a relative path from the working directory
P_exe == <<".", "/", "t", "o", "u", "c", "h">>

\* Path::file_stem: the file name up to its last dot, the whole name when
\* it has no dot or only a leading one
RECURSIVE UpToLastDot(_)
UpToLastDot(name) ==
    IF name = <<>> THEN <<>>
    ELSE IF name[Len(name)] = "." THEN SubSeq(name, 1, Len(name) - 1)
    ELSE UpToLastDot(SubSeq(name, 1, Len(name) - 1))

file_stem(path) ==
    LET name == LastComponent(path)
    IN  IF UpToLastDot(name) = <<>> THEN name ELSE UpToLastDot(name)

TouchStem == file_stem(P_exe)
\* main's file_name and file_name_exe, both taken from the executable's path
TouchExeNames == {file_stem(P_exe), LastComponent(P_exe)}

\* main's list of recognized arguments
TouchArguments ==
    {<<"/", "h">>, <<"-", "-", "h", "e", "l", "p">>,
     <<"/", "c">>, <<"-", "-", "n", "o", "-", "c", "r", "e", "a", "t", "e">>,
     <<"/", "d">>, <<"-", "-", "d", "i", "r", "e", "c", "t", "o", "r", "y">>,
     <<"/", "a">>,
     <<"-", "-", "a", "c", "c", "e", "s", "s", "-", "t", "i", "m", "e">>,
     <<"/", "m">>,
     <<"-", "-", "m", "o", "d", "i", "f", "i", "c", "a", "t", "i", "o", "n", "-",
       "t", "i", "m", "e">>}

\* Bound of the touch model
MaxTouchArgs == 3

\* The paths of the model: two entries of the working directory, one entry
\* of the directory d, and one entry of the root directory, where the user
\* may not create anything
P_f == <<"f">>
P_d == <<"d">>
P_df == <<"d", "/", "f">>
P_x == <<"/", "x">>
TouchPaths == {P_f, P_d, P_df, P_x, P_exe}

\* What args[0] may be: the bare stem, or the relative path of the executable
TouchArgv0 == {TouchStem, P_exe}

\* The flags and targets tried on the command line
TouchTokens ==
    {<<"/", "h">>, <<"/", "c">>, <<"/", "d">>, <<"/", "a">>, <<"/", "m">>,
     P_f, P_d, P_df, P_x}

Missing == [kind |-> "none"]
\* an entry the user has made, and so owns
Entry(kind, content, atime, mtime) ==
    [kind |-> kind, content |-> content, atime |-> atime, mtime |-> mtime,
     owner |-> TRUE]

\* an entry of another user: its times are not the user's to set
Foreign(entry) == [entry EXCEPT !.owner = FALSE]

\* A timestamp is kept as what the program fixes of it. A time written from
\* SystemTime::now, or held when touch starts, is a value `at` of the system
\* clock. A time the kernel writes by itself, when it makes an entry, is
\* its n-th stamp of the run, written while the system clock showed no more
\* than `at`: the kernel takes it from a clock of its own, coarser and
\* behind the system clock, and where it falls among earlier system times,
\* and whether two of its stamps are equal, the program does not fix.
SysTime(v) == [clock |-> "system", at |-> v, seq |-> 0]
KernelTime(bound, n) == [clock |-> "kernel", at |-> bound, seq |-> n]

\* what is fixed of the order of two timestamps: a is not later than b.
\* System times compare by value; the kernel's stamps never go back; a
\* stamp of the kernel is not later than the system clock when it was
\* written. Nothing is fixed of a system time against a later stamp of the
\* kernel.
NotLater(a, b) ==
    IF a.clock = "system" THEN b.clock = "system" /\ a.at <= b.at
    ELSE IF b.clock = "kernel" THEN a.seq <= b.seq
    ELSE a.at <= b.at

\* the (atime, mtime) pairs an entry may hold when touch starts with the
\* clock at 3: older, equal, or set in the future
InitTimes == {<<0, 3>>, <<3, 0>>, <<20, 20>>}
OldContent == <<"x">>

\* an entry that was there when touch started
OldEntry(kind, content, atime, mtime) ==
    Entry(kind, content, SysTime(atime), SysTime(mtime))

\* the trees touch may start in
TouchTrees ==
    LET files_    == {OldEntry("file", OldContent, t[1], t[2]) : t \in InitTimes}
        dirs      == {OldEntry("dir", <<>>, t[1], t[2]) : t \in InitTimes}
        someFile  == OldEntry("file", OldContent, 0, 3)
        someDir   == OldEntry("dir", <<>>, 0, 3)
        fileStates == {Missing} \cup files_
        dirStates  == dirs \cup {Foreign(someDir)}
    IN  {tree \in
            {[p \in TouchPaths |->
                CASE p = P_f  -> f
                  [] p = P_d  -> d
                  [] p = P_df -> df
                  [] p = P_x  -> Missing
                  [] p = P_exe -> OldEntry("file", <<"E">>, 0, 1)] :
             f \in fileStates \cup {Foreign(someFile)},
             d \in {Missing} \cup dirStates, df \in fileStates} :
         tree[P_df] = Missing \/ tree[P_d].kind = "dir"}

\* Options::new
TouchOptionsNew ==
    [no_create |-> FALSE, directory |-> FALSE, acc_time |-> FALSE, mod_time |-> FALSE]

\* the directory that holds a path: "." for a bare name, "/" below the root
RECURSIVE DirPrefix(_)
DirPrefix(path) ==
    IF path = <<>> THEN <<>>
    ELSE IF path[Len(path)] = "/" THEN SubSeq(path, 1, Len(path) - 1)
    ELSE DirPrefix(SubSeq(path, 1, Len(path) - 1))

ParentOf(path) ==
    IF "/" \notin Range(path) THEN <<".">>
    ELSE IF DirPrefix(path) = <<>> THEN <<"/">>
    ELSE DirPrefix(path)

\* what the file system holds at a path
KindOf(filesys, path) ==
    IF path \in {<<".">>, <<"/">>} THEN "dir"
    ELSE filesys[path].kind

\* Path::exists
exists(filesys, path) == KindOf(filesys, path) # "none"

\* whether the user may create entries in a directory
Writable(dir) == dir # <<"/">>

\* a new entry appears in a directory: the directory's modification time moves
WithParentTouched(filesys, path, t) ==
    IF ParentOf(path) \in DOMAIN filesys
    THEN [filesys EXCEPT ![ParentOf(path)].mtime = t]
    ELSE filesys

\* the result of a call: the file system after it, the calls logged, the
\* error kind, "" when there is none, and how many timestamps the kernel
\* wrote by itself
Result(filesys, calls, error, used) ==
    [fs |-> filesys, calls |-> calls, error |-> error, used |-> used]

\* both timestamps written whatever the type
SetTimes_Both(entry, type_, t) == [entry EXCEPT !.atime = t, !.mtime = t]

\* the timestamps create_file writes when the file exists already
SetTimes(entry, type_, t) ==
    IF type_ = "a" THEN [entry EXCEPT !.atime = t]
    ELSE IF type_ = "m" THEN [entry EXCEPT !.mtime = t]
    ELSE [entry EXCEPT !.atime = t, !.mtime = t]

SetTimesCall(type_) ==
    IF type_ = "a" THEN "set_file_atime"
    ELSE IF type_ = "m" THEN "set_file_mtime"
    ELSE "set_file_times"

\* create_file: File::create_new, where the kernel stamps the new file and
\* then the directory that holds it, its stamps n + 1 and n + 2; and on
\* AlreadyExists the timestamps, set to the system clock t, a write that
\* fails on an entry of another user and whose unwrap then panics
create_file(filesys, file_name_, type_, t, n) ==
    LET created == [call |-> "create_new", path |-> file_name_]
        written == [call |-> SetTimesCall(type_), path |-> file_name_]
        born    == KernelTime(t.at, n + 1)
    IN  IF exists(filesys, file_name_)
        THEN IF filesys[file_name_].owner
             THEN Result([filesys EXCEPT ![file_name_] = SetTimes(@, type_, t)],
                         <<created, written>>, "", 0)
             ELSE Result(filesys, <<created, written>>, "panic", 0)
        ELSE IF KindOf(filesys, ParentOf(file_name_)) = "none"
        THEN Result(filesys, <<created>>, "NotFound", 0)
        ELSE IF KindOf(filesys, ParentOf(file_name_)) = "file"
        THEN Result(filesys, <<created>>, "NotADirectory", 0)
        ELSE IF ~Writable(ParentOf(file_name_))
        THEN Result(filesys, <<created>>, "PermissionDenied", 0)
        ELSE Result(WithParentTouched(
                        [filesys EXCEPT ![file_name_] = Entry("file", <<>>, born, born)],
                        file_name_, KernelTime(t.at, n + 2)),
                    <<created>>, "", 2)

\* fs::create_dir_all: the missing ancestors first, then the directory, one
\* mkdir each; at each mkdir the kernel stamps the new directory and then
\* the directory that holds it, with its next two stamps after the n it
\* had written, while the system clock shows no more than t
RECURSIVE create_dir_all(_, _, _, _)
create_dir_all(filesys, path, t, n) ==
    IF KindOf(filesys, path) = "dir" THEN Result(filesys, <<>>, "", 0)
    ELSE IF KindOf(filesys, path) = "file" THEN Result(filesys, <<>>, "AlreadyExists", 0)
    ELSE LET up   == create_dir_all(filesys, ParentOf(path), t, n)
             born == KernelTime(t.at, n + up.used + 1)
         IN  IF up.error = "AlreadyExists"
             THEN Result(up.fs, <<>>, "NotADirectory", up.used)
             ELSE IF up.error # "" THEN up
             ELSE IF ~Writable(ParentOf(path))
             THEN Result(up.fs, <<>>, "PermissionDenied", up.used)
             ELSE Result(WithParentTouched(
                             [up.fs EXCEPT ![path] = Entry("dir", <<>>, born, born)],
                             path, KernelTime(t.at, n + up.used + 2)),
                         <<>>, "", up.used + 2)

\* make_file without the no_create branch
make_file_IgnoresNoCreate(filesys, file_name_, opts, t, n) ==
    IF opts.directory
    THEN LET made == create_dir_all(filesys, file_name_, t, n)
         IN  Result(made.fs, <<[call |-> "create_dir_all", path |-> file_name_]>>,
                    made.error, made.used)
    ELSE IF opts.acc_time THEN create_file(filesys, file_name_, "a", t, n)
    ELSE IF opts.mod_time THEN create_file(filesys, file_name_, "m", t, n)
    ELSE create_file(filesys, file_name_, "none", t, n)

\* make_file
make_file(filesys, file_name_, opts, t, n) ==
    IF opts.no_create /\ ~exists(filesys, file_name_)
    THEN Result(filesys, <<>>, "", 0)
    ELSE IF opts.directory
    THEN LET made == create_dir_all(filesys, file_name_, t, n)
         IN  Result(made.fs, <<[call |-> "create_dir_all", path |-> file_name_]>>,
                    made.error, made.used)
    ELSE IF opts.acc_time THEN create_file(filesys, file_name_, "a", t, n)
    ELSE IF opts.mod_time THEN create_file(filesys, file_name_, "m", t, n)
    ELSE create_file(filesys, file_name_, "none", t, n)

\* whether main's loop skips an argument
Skipped(arg) == arg \in TouchExeNames \/ arg \in TouchArguments

\* touch's check_args
TouchCheckArgs ==
    /\ pc = "touch_check_args"
    /\ UNCHANGED <<args, i, file_paths, fs, files, now, kstamps, log>>
    /\ IF Len(args) = 1
       THEN Exit(1, "usage") /\ UNCHANGED <<options, out>>
       ELSE LET arg == args[2] IN
            IF arg \in {<<"/", "h">>, <<"-", "-", "h", "e", "l", "p">>}
            THEN /\ pc' = "done" /\ exit_code' = 0
                 /\ out' = <<[kind |-> "help"]>>
                 /\ UNCHANGED <<err, options>>
            ELSE /\ pc' = "touch_loop"
                 /\ UNCHANGED <<exit_code, err, out>>
                 /\ options' =
                      IF arg \in {<<"/", "c">>,
                                  <<"-", "-", "n", "o", "-", "c", "r", "e", "a", "t", "e">>}
                      THEN [options EXCEPT !.no_create = TRUE]
                      ELSE IF arg \in {<<"/", "d">>,
                                       <<"-", "-", "d", "i", "r", "e", "c", "t", "o", "r", "y">>}
                      THEN [options EXCEPT !.directory = TRUE]
                      ELSE IF arg \in {<<"/", "a">>,
                                       <<"-", "-", "a", "c", "c", "e", "s", "s", "-",
                                         "t", "i", "m", "e">>}
                      THEN [options EXCEPT !.acc_time = TRUE]
                      ELSE IF arg \in {<<"/", "m">>,
                                       <<"-", "-", "m", "o", "d", "i", "f", "i", "c", "a",
                                         "t", "i", "o", "n", "-", "t", "i", "m", "e">>}
                      THEN [options EXCEPT !.mod_time = TRUE]
                      ELSE options

\* one iteration of main's loop over args. The system clock has moved on
\* by the time a target is processed, and SystemTime::now reads it; what
\* the call creates the kernel stamps by itself.
TouchStep ==
    /\ pc = "touch_loop"
    /\ i < Len(args)
    /\ i' = i + 1
    /\ UNCHANGED <<args, options, out, file_paths, files>>
    /\ LET arg == args[i + 1] IN
       IF Skipped(arg)
       THEN UNCHANGED <<pc, exit_code, err, fs, now, kstamps, log>>
       ELSE LET made == make_file(fs, arg, options, SysTime(now + 1), kstamps) IN
            /\ now' = now + 1
            /\ kstamps' = kstamps + made.used
            /\ fs' = made.fs
            /\ log' = log \o made.calls
            /\ IF made.error = ""
               THEN UNCHANGED <<pc, exit_code, err>>
               ELSE IF made.error = "panic"
               THEN Exit(101, "panic: called Result::unwrap() on an Err value")
               ELSE Exit(1, made.error)

\* the loop ends and main returns Ok(())
TouchReturn ==
    /\ pc = "touch_loop"
    /\ i >= Len(args)
    /\ pc' = "done"
    /\ exit_code' = 0
    /\ UNCHANGED <<args, err, options, out, i, file_paths, fs, files, now, kstamps, log>>

InitTouch ==
    /\ args \in {<<argv0>> \o rest :
                    argv0 \in TouchArgv0, rest \in SeqsUpTo(TouchTokens, MaxTouchArgs)}
    /\ fs \in TouchTrees
    /\ pc = "touch_check_args"
    /\ exit_code = Running
    /\ err = <<>>
    /\ options = TouchOptionsNew
    /\ out = <<>>
    /\ i = 0
    /\ file_paths = <<>>
    /\ files = <<>>
    /\ now = 3
    /\ kstamps = 0
    /\ log = <<>>

NextTouch == TouchCheckArgs \/ TouchStep \/ TouchReturn

SpecTouch == InitTouch /\ [][NextTouch]_vars

-----------------------------------------------------------------------------
(* What tail is claimed to print *)

\* the lines of a text: the pieces between newlines, where a final newline
\* ends the last line and starts no new one
RefLines(content) ==
    LET pieces == split_newline(content, <<>>)
    IN  IF pieces[Len(pieces)] = <<>>
        THEN SubSeq(pieces, 1, Len(pieces) - 1)
        ELSE pieces

\* the last min(n, L) lines, each on its own line
RefLastLines(content, n) ==
    LET lines == RefLines(content)
        keep  == Min(n, Len(lines))
    IN  PrintLines(SubSeq(lines, Len(lines) - keep + 1, Len(lines)))

\* the last min(N, len) bytes, for a size N that is not truncated
RefLastBytes(content, size) ==
    LET keep == WideMin(size, Len(content))
    IN  SubSeq(content, Len(content) - keep + 1, Len(content))

\* one scan of the arguments after the invocation name: a flag changes the
\* running options, a file operand is rendered once, as display_files
\* renders a file, with the options in effect where it stands
RECURSIVE RefScan(_, _, _, _)
RefScan(a, k, opts, filesys) ==
    IF k > Len(a) THEN <<>>
    ELSE IF a[k] \in {T_l, T_n, T_num_lines} /\ k < Len(a) /\ ParseU32(a[k + 1]).some
    THEN RefScan(a, k + 2, [opts EXCEPT !.num_lines = ParseU32(a[k + 1]).val], filesys)
    ELSE IF a[k] \in {T_b, T_num_bytes} /\ k < Len(a) /\ parse_size(a[k + 1]).some
    THEN RefScan(a, k + 2,
                 [opts EXCEPT !.num_bytes = Some(SizeAsU32(parse_size(a[k + 1]).val))],
                 filesys)
    ELSE IF a[k] \in DOMAIN filesys
    THEN <<Block(a[k], filesys[a[k]], opts)>> \o RefScan(a, k + 1, opts, filesys)
    ELSE RefScan(a, k + 1, opts, filesys)

\* C1: after a successful run of tail every file operand has been printed
\* exactly once, in command-line order, with the options in effect at its
\* place in the arguments (a later operand or flag never prints an earlier
\* file again).
C1_EachOperandOnce ==
    (pc = "done" /\ args[1] = TailStem /\ exit_code = 0 /\ file_paths # <<>>)
        => out = RefScan(args, 2, TailOptionsNew, fs)

\* C2: `tail /l n f` with a valid n and a readable f sets num_lines to n,
\* prints the last n lines of f and exits 0.
C2_SlashLAccepted ==
    (/\ pc = "done"
     /\ args[1] = TailStem
     /\ Len(args) = 4
     /\ args[2] = T_l
     /\ ParseU32(args[3]).some
     /\ args[4] \in DOMAIN fs)
    => /\ exit_code = 0
       /\ options.num_lines = ParseU32(args[3]).val
       /\ Len(out) = 1
       /\ out[1].file = args[4]
       /\ out[1].body = RefLastLines(fs[args[4]], ParseU32(args[3]).val)

\* the first argument is a value-taking flag of tail whose value is missing
\* or malformed
TailBadFlagValue ==
    /\ Len(args) >= 2
    /\ \/ /\ args[2] \in {T_l, T_num_lines}
          /\ (Len(args) = 2 \/ ~ParseU32(args[3]).some)
       \/ /\ args[2] \in {T_b, T_num_bytes}
          /\ (Len(args) = 2 \/ ~parse_size(args[3]).some)

\* C3: when the first argument is a value-taking flag whose value is missing
\* or malformed, the run never reaches the file pass and ends with exit code
\* 1 after one error on standard error.
C3_BadFlagValueExits1 ==
    (pc \in {"tail_check_args", "tail_display_files", "done"} /\ TailBadFlagValue)
        => /\ pc # "tail_display_files"
           /\ pc = "done" => (exit_code = 1 /\ Len(err) = 1 /\ out = <<>>)

\* C4: `tail /b size f` prints the last min(size, length) bytes of f, for
\* every size parse_size accepts; the whole file when size >= length.
C4_ByteModeTail ==
    (/\ pc = "done"
     /\ args[1] = TailStem
     /\ Len(args) = 4
     /\ args[2] \in {T_b, T_num_bytes}
     /\ parse_size(args[3]).some
     /\ args[4] \in DOMAIN fs)
    => /\ exit_code = 0
       /\ Len(out) = 1
       /\ out[1].body = RefLastBytes(fs[args[4]], parse_size(args[3]).val)

\* C5: `tail /n n f` (and `tail f`, n = 10) prints exactly the last
\* min(n, L) lines of f, whether or not f ends with a newline; nothing for
\* n = 0.
C5_LineModeTail ==
    /\ (/\ pc = "done"
        /\ args[1] = TailStem
        /\ Len(args) = 4
        /\ args[2] \in {T_n, T_num_lines}
        /\ ParseU32(args[3]).some
        /\ args[4] \in DOMAIN fs)
       => /\ exit_code = 0
          /\ Len(out) = 1
          /\ out[1].body = RefLastLines(fs[args[4]], ParseU32(args[3]).val)
    /\ (/\ pc = "done"
        /\ args[1] = TailStem
        /\ Len(args) = 2
        /\ args[2] \in DOMAIN fs)
       => /\ exit_code = 0
          /\ Len(out) = 1
          /\ out[1].body = RefLastLines(fs[args[2]], 10)

-----------------------------------------------------------------------------
(* What locate is claimed to report *)

\* find_file has run to its end
LocateListed ==
    pc = "done" /\ exit_code = 0 /\ out # <<>> /\ out[Len(out)].kind = "count"

SearchTerm == args[Len(args)]

\* the regular files of the tree
RegularFiles == {fs[n].path : n \in {m \in 1..Len(fs) : fs[m].is_file}}

\* the number M of matching files
MatchCount ==
    Cardinality({n \in 1..Len(fs) :
        fs[n].is_file /\ matches_search(fs[n].path, SearchTerm, options)})

\* the number of path lines printed
PathLines == Cardinality({n \in 1..Len(out) : out[n].kind = "path"})

CountFlag == args[2] \in {L_c, L_count}
LimitFlag == args[2] \in {L_l, L_limit}

\* C6: the count line reports the number M of matching files, never clipped;
\* the path lines are 0 with count_only, min(limit, M) with a limit, and M
\* with neither.
C6_LocateCounts ==
    LocateListed =>
        /\ out[Len(out)].n = MatchCount
        /\ \A n \in 1..(Len(out) - 1) : out[n].kind = "path"
        /\ PathLines = IF CountFlag THEN 0
                       ELSE IF LimitFlag THEN Min(ParseU32(args[3]).val, MatchCount)
                       ELSE MatchCount

\* a limit below the number of matches has clipped the listing, not the count
C6_Witness ==
    /\ LocateListed
    /\ LimitFlag
    /\ MatchCount > ParseU32(args[3]).val
    /\ PathLines = 1
    /\ out[Len(out)].n >= 2

\* the last component of a path
RefBaseName(path) ==
    LET slashes == {n \in 1..Len(path) : path[n] = "/"}
        from    == IF slashes = {} THEN 1
                   ELSE 1 + CHOOSE n \in slashes : \A m \in slashes : m <= n
    IN  SubSeq(path, from, Len(path))

\* the predicate of the mode the first argument selects
RefMatches(path) ==
    IF args[2] \in {L_b, L_basename}
    THEN contains(to_lowercase(RefBaseName(path)), to_lowercase(SearchTerm))
    ELSE IF args[2] \in {L_s, L_case_sensitive}
    THEN contains(path, SearchTerm)
    ELSE contains(to_lowercase(path), to_lowercase(SearchTerm))

RegexFlag == args[2] \in {L_r, L_regex}

\* C7 as stated: in base_name, case_sensitive and default mode (no flag,
\* count or limit) the files reported are exactly the regular files that
\* satisfy the mode's predicate for the last argument, each once.
C7_Original ==
    (LocateListed /\ ~RegexFlag) =>
        /\ Range(files) = {display(p) : p \in {q \in RegularFiles : RefMatches(display(q))}}
        /\ Len(files) = Cardinality(Range(files))

\* C7 as amended: the same of the regular files whose name is valid Unicode;
\* a regular file whose name is not valid Unicode is never reported.
C7_LocateMatchSet ==
    (LocateListed /\ ~RegexFlag) =>
        /\ Range(files) =
            {display(p) : p \in {q \in RegularFiles :
                is_utf8(RefBaseName(q)) /\ RefMatches(display(q))}}
        /\ Len(files) = Cardinality(Range(files))

\* base_name mode has reported a file and left out one whose full path, but
\* not whose basename, holds the term
C7_Witness ==
    /\ LocateListed
    /\ args[2] = L_b
    /\ files # <<>>
    /\ \E p \in RegularFiles :
        /\ is_utf8(RefBaseName(p))
        /\ display(p) \notin Range(files)
        /\ contains(to_lowercase(display(p)), to_lowercase(SearchTerm))

\* C8: regex mode is case-insensitive: a file is reported exactly when the
\* pattern matches its path with letter case ignored on both sides (said
\* here of the files whose name is valid Unicode).
C8_RegexCaseInsensitive ==
    (LocateListed /\ RegexFlag) =>
        Range(files) =
            {display(p) : p \in {q \in RegularFiles :
                /\ is_utf8(RefBaseName(q))
                /\ is_match(to_lowercase(args[3]), to_lowercase(display(q)))}}

-----------------------------------------------------------------------------
(* What touch is claimed to do to a target *)

\* this step of main's loop calls make_file on Target
Processing ==
    /\ pc = "touch_loop"
    /\ i < Len(args)
    /\ i' = i + 1
    /\ ~Skipped(args[i + 1])

Target == args[i + 1]

\* the calls this step adds to the log
NewCalls == {log'[n].call : n \in (Len(log) + 1)..Len(log')}

TimestampCalls == {"set_file_atime", "set_file_mtime", "set_file_times"}

\* the frame of a touch of an existing target in file mode
ExistingFrame ==
    /\ fs'[Target].kind = fs[Target].kind
    /\ fs'[Target].content = fs[Target].content
    /\ options.acc_time =>
        (fs'[Target].atime = SysTime(now') /\ fs'[Target].mtime = fs[Target].mtime)
    /\ options.mod_time =>
        (fs'[Target].mtime = SysTime(now') /\ fs'[Target].atime = fs[Target].atime)
    /\ (~options.acc_time /\ ~options.mod_time) =>
        (fs'[Target].atime = SysTime(now') /\ fs'[Target].mtime = SysTime(now'))

\* a target that did not exist is created without a timestamp write
CreatedFrame ==
    (~exists(fs, Target) /\ ~options.no_create /\ exit_code' = Running) =>
        /\ fs'[Target].kind = "file"
        /\ NewCalls \cap TimestampCalls = {}

RefOutcome(entry, opts, t, k) ==
    IF entry.kind = "none"
    THEN IF opts.no_create THEN Missing
         ELSE IF opts.directory THEN Entry("dir", <<>>, k, k)
         ELSE Entry("file", <<>>, k, k)
    ELSE IF opts.directory THEN entry
    ELSE IF opts.acc_time THEN [entry EXCEPT !.atime = t]
    ELSE IF opts.mod_time THEN [entry EXCEPT !.mtime = t]
    ELSE [entry EXCEPT !.atime = t, !.mtime = t]

\* C10: with no_create a missing target stays missing, without an error, and
\* the run goes on; without it, in file mode, a missing target becomes a
\* zero-byte file; an existing target keeps its content; the outcome of a
\* target is a function of its prior state and the options; a run without a
\* fatal error exits 0.
C10_TargetOutcome ==
    /\ [][Processing =>
            /\ (options.no_create /\ ~exists(fs, Target)) =>
                /\ fs' = fs
                /\ err' = err
                /\ exit_code' = Running
                /\ pc' = "touch_loop"
            /\ exit_code' = Running =>
                /\ (~options.no_create /\ ~options.directory /\ ~exists(fs, Target)) =>
                    (fs'[Target].kind = "file" /\ fs'[Target].content = <<>>)
                /\ exists(fs, Target) =>
                    (fs'[Target].kind = fs[Target].kind
                     /\ fs'[Target].content = fs[Target].content)
                /\ \E n \in kstamps..kstamps' :
                    fs'[Target] = RefOutcome(fs[Target], options, SysTime(now'),
                                             KernelTime(now', n))]_vars
    /\ [](pc = "done" /\ err = <<>> => exit_code = 0)

\* a run with no_create has passed a missing target and then re-stamped an
\* existing one, and has ended with exit code 0
C10_Witness ==
    /\ pc = "done"
    /\ exit_code = 0
    /\ options.no_create
    /\ \E n \in 3..Len(args) : ~Skipped(args[n]) /\ ~exists(fs, args[n])
    /\ \E n \in 1..Len(log) : log[n].call = "set_file_times"

-----------------------------------------------------------------------------
(* What is claimed of the invocation name *)

\* the arguments after the invocation name
Operands == {args[k] : k \in 2..Len(args)}

\* C11: the invocation name args[0] is never handled as an operand or a
\* flag: tail opens only files given after it and never rejects it as an
\* unknown argument, and touch creates or re-stamps only paths given after
\* it.
C11_Argv0NeverHandled ==
    /\ pc \in {"tail_display_files", "done"} =>
        /\ Range(file_paths) \subseteq Operands
        /\ ~(i = 0 /\ exit_code = 1 /\ err = <<"unknown argument">>)
    /\ \A n \in 1..Len(log) : log[n].path \in Operands

====
